---- MODULE Spec2Model ----
(***************************************************************************)
(* Plant AI Guardian backend (main.py): the helpers external_predict,      *)
(* external_treatments, external_products, external_tutorials and the      *)
(* routes /api/predict, /api/treatments, /api/products, /api/tutorials,    *)
(* /api/analyze and /api/recent.                                           *)
(*                                                                         *)
(* Values.  A JSON / Python value is a record [t, s, n]:                   *)
(*   t = "absent"  the key is missing from the object                      *)
(*   t = "none"    JSON null / Python None                                 *)
(*   t = "str"     a text, s                                               *)
(*   t = "num"     a number, n, in thousandths (850 is 0.85)               *)
(*   t = "nan"     the float NaN                                           *)
(*   t = "list"    a non-empty JSON array (neither text nor number)        *)
(***************************************************************************)
EXTENDS Integers, Sequences, FiniteSets, TLC

\* ---------------------------------------------------------------- bounds
\* longest upstream array handed to a lookup route called on its own
MaxItems == 2
\* longest upstream array handed to each lookup inside one /api/analyze
MaxBundleItems == 1
\* longest cursor result the store hands to /api/recent
MaxDocs == 2

\* ---------------------------------------------------------------- values
Absent == [t |-> "absent", s |-> "", n |-> 0]
None == [t |-> "none", s |-> "", n |-> 0]
Str(x) == [t |-> "str", s |-> x, n |-> 0]
Num(x) == [t |-> "num", s |-> "", n |-> x]
NaN == [t |-> "nan", s |-> "", n |-> 0]
JList == [t |-> "list", s |-> "", n |-> 0]

\* the marker of a raised exception, as the value of an expression
Raise == [t |-> "raise", s |-> "", n |-> 0]

\* dict.get(key): a missing key reads as None
Get(v) == IF v.t = "absent" THEN None ELSE v

\* dict.get(key, default): only a missing key takes the default
GetDefault(v, d) == IF v.t = "absent" THEN d ELSE v

\* Python truthiness, as `or` tests it
Truthy(v) ==
  CASE v.t = "none" -> FALSE
    [] v.t = "str" -> v.s # ""
    [] v.t = "num" -> v.n # 0
    [] OTHER -> TRUE

\* a variant of `or` that keeps every value other than None
OrFirstNonNull(a, b) == IF a.t # "none" THEN a ELSE b

\* a or b
Or(a, b) == IF Truthy(a) THEN a ELSE b

\* the texts float() is given here and what it makes of them; any other text
\* raises ValueError
ParseFloat(s) ==
  CASE s = "0.9" -> Num(900)
    [] s = "0.6" -> Num(600)
    [] s = "nan" -> NaN
    [] OTHER -> Raise

\* float(v): numbers pass, texts are parsed, None and arrays raise TypeError
Float(v) ==
  CASE v.t = "num" -> v
    [] v.t = "nan" -> v
    [] v.t = "str" -> ParseFloat(v.s)
    [] OTHER -> Raise

\* x > bound on floats: every comparison with NaN is false
Gt(x, bound) == x.t = "num" /\ x.n > bound

\* x <= bound on floats
Le(x, bound) == x.t = "num" /\ x.n <= bound

\* pydantic: a field declared `str` takes a text only
IsStr(v) == v.t = "str"

\* pydantic: a field declared Optional[str] takes a text or None
IsOptStr(v) == v.t \in {"str", "none"}

\* ------------------------------------------------------ upstream responses
\* requests: the call raises (connection error, timeout, raise_for_status on
\* a non-success status, r.json() on an unparsable body) or yields a body
FailKinds == {"network_error", "timeout", "bad_status", "bad_json"}

Failure(k) == [kind |-> k, shape |-> "none", obj |-> <<>>, items |-> <<>>]
ObjectBody(o) == [kind |-> "ok", shape |-> "object", obj |-> o, items |-> <<>>]
ListBody(xs) == [kind |-> "ok", shape |-> "list", obj |-> <<>>, items |-> xs]
ScalarBody == [kind |-> "ok", shape |-> "scalar", obj |-> <<>>, items |-> <<>>]
NoCall == [kind |-> "no_call", shape |-> "none", obj |-> <<>>, items |-> <<>>]

Failures == {Failure(k) : k \in FailKinds}

SeqsUpTo(S, k) == UNION {[1..m -> S] : m \in 0..k}

\* ------------------------------------------------------ program constants
\* confidence above which severity is "high" (0.85)
HighAbove == 850
\* confidence above which severity is "medium" (0.6)
MediumAbove == 600
\* data.get("confidence", 0.5)
DefaultConfidence == 500
\* the 0.87 of the development fallback
FallbackConfidence == 870

\* ---------------------------------------------------------- external_predict
\* the model constructor: `disease: str` is validated, a failure raises
\* ValidationError
PredictResponse(disease, confidence, organ, severity) ==
  [raised |-> ~IsStr(disease),
   disease |-> disease, confidence |-> confidence,
   organ |-> organ, severity |-> severity]

\* the try block: post, raise_for_status, r.json(), data.get(...), float(...)
\* ok = FALSE when any of them raises
PredictTry(up) ==
  IF up.kind # "ok" \/ up.shape # "object"
    THEN [ok |-> FALSE, disease |-> None, confidence |-> None]
    ELSE LET c == Float(GetDefault(up.obj.confidence, Num(DefaultConfidence)))
         IN  IF c = Raise
               THEN [ok |-> FALSE, disease |-> None, confidence |-> None]
               ELSE [ok |-> TRUE,
                     disease |-> GetDefault(up.obj.disease, Str("Unknown")),
                     confidence |-> c]

\* "high" if confidence > 0.85 else ("medium" if confidence > 0.6 else "low")
Severity(confidence) ==
  IF Gt(confidence, HighAbove) THEN "high"
  ELSE IF Gt(confidence, MediumAbove) THEN "medium"
  ELSE "low"

external_predict(up) ==
  LET got == PredictTry(up)
      disease == IF got.ok THEN got.disease ELSE Str("Leaf Blight")
      confidence == IF got.ok THEN got.confidence ELSE Num(FallbackConfidence)
  IN  PredictResponse(disease, confidence, Str("leaf"), Str(Severity(confidence)))

\* -------------------------------------------------------- external_treatments
\* TreatmentItem(...) validates four Optional[str] fields
TreatmentValid(x) ==
  /\ IsOptStr(x.symptoms) /\ IsOptStr(x.organic)
  /\ IsOptStr(x.chemical) /\ IsOptStr(x.prevention)

\* one pass of the loop body; it.get on a non-object raises AttributeError
TreatmentOf(it) ==
  [symptoms |-> Get(it.symptoms),
   organic |-> Get(it.organic),
   chemical |-> Get(it.chemical),
   prevention |-> Or(Get(it.prevention), Get(it.preventive))]

TreatmentRaises(it) == ~it.isobj \/ ~TreatmentValid(TreatmentOf(it))

FallbackTreatments ==
  << [symptoms |-> Str("Spots and lesions on leaves"),
      organic |-> Str("Neem oil spray weekly"),
      chemical |-> Str("Copper-based fungicide as directed"),
      prevention |-> Str("Ensure proper spacing and airflow")] >>

\* a variant whose else branch appends nothing: a body that is no array
\* yields the empty list
external_treatments_no_else(up, disease) ==
  IF up.kind # "ok" THEN FallbackTreatments
  ELSE IF up.shape = "list"
    THEN IF \E i \in 1..Len(up.items) : TreatmentRaises(up.items[i])
           THEN FallbackTreatments
           ELSE [i \in 1..Len(up.items) |-> TreatmentOf(up.items[i])]
    ELSE <<>>

external_treatments(up, disease) ==
  IF up.kind # "ok" THEN FallbackTreatments
  ELSE IF up.shape = "list"
    THEN IF \E i \in 1..Len(up.items) : TreatmentRaises(up.items[i])
           THEN FallbackTreatments
           ELSE [i \in 1..Len(up.items) |-> TreatmentOf(up.items[i])]
    ELSE FallbackTreatments

\* ---------------------------------------------------------- external_products
\* the inner try: float(it.get("price")) unless it is None; any error -> None
PriceOf(it) ==
  LET p == Get(it.price)
  IN  IF p.t = "none" THEN None
      ELSE IF Float(p) = Raise THEN None ELSE Float(p)

ProductOf(it) ==
  [name |-> GetDefault(it.name, Str("Product")),
   price |-> PriceOf(it),
   url |-> Get(it.url),
   image |-> Get(it.image)]

\* ProductItem(...) validates `name: str` and two Optional[str] fields
ProductValid(x) == IsStr(x.name) /\ IsOptStr(x.url) /\ IsOptStr(x.image)

ProductRaises(it) == ~it.isobj \/ ~ProductValid(ProductOf(it))

FallbackProducts ==
  << [name |-> Str("Bio Neem Oil"), price |-> Num(12990),
      url |-> Str("https://example.com/neem"),
      image |-> Str("https://images.unsplash.com/photo-1524594081293-190a2fe0baae?q=80&w=400")],
     [name |-> Str("Copper Fungicide"), price |-> Num(18490),
      url |-> Str("https://example.com/copper"),
      image |-> Str("https://images.unsplash.com/photo-1542291026-7eec264c27ff?q=80&w=400")] >>

\* a variant that tests `if items:` and so takes an empty array for a failure
external_products_if_items(up, disease) ==
  IF up.kind = "ok" /\ up.shape = "list" /\ Len(up.items) > 0
       /\ \A i \in 1..Len(up.items) : ~ProductRaises(up.items[i])
    THEN [i \in 1..Len(up.items) |-> ProductOf(up.items[i])]
    ELSE FallbackProducts

external_products(up, disease) ==
  IF up.kind = "ok" /\ up.shape = "list"
       /\ \A i \in 1..Len(up.items) : ~ProductRaises(up.items[i])
    THEN [i \in 1..Len(up.items) |-> ProductOf(up.items[i])]
    ELSE FallbackProducts

\* --------------------------------------------------------- external_tutorials
TutorialOf(it) ==
  [title |-> GetDefault(it.title, Str("Tutorial")),
   videoId |-> Get(it.videoId),
   thumbnail |-> Get(it.thumbnail),
   url |-> Get(it.url)]

\* TutorialItem(...) validates `title: str` and three Optional[str] fields
TutorialValid(x) ==
  /\ IsStr(x.title) /\ IsOptStr(x.videoId)
  /\ IsOptStr(x.thumbnail) /\ IsOptStr(x.url)

TutorialRaises(it) == ~it.isobj \/ ~TutorialValid(TutorialOf(it))

\* a variant whose titles are not formatted with the disease
FallbackTutorialsFixedTitle(disease) ==
  << [title |-> Str("How to treat Leaf Blight"),
      videoId |-> Str("dQw4w9WgXcQ"),
      thumbnail |-> Str("https://img.youtube.com/vi/dQw4w9WgXcQ/hqdefault.jpg"),
      url |-> Str("https://www.youtube.com/watch?v=dQw4w9WgXcQ")],
     [title |-> Str("Preventing Leaf Blight in your garden"),
      videoId |-> Str("9bZkp7q19f0"),
      thumbnail |-> Str("https://img.youtube.com/vi/9bZkp7q19f0/hqdefault.jpg"),
      url |-> Str("https://www.youtube.com/watch?v=9bZkp7q19f0")] >>

\* the two mock tutorials, titles formatted with the disease
FallbackTutorials(disease) ==
  << [title |-> Str("How to treat " \o disease),
      videoId |-> Str("dQw4w9WgXcQ"),
      thumbnail |-> Str("https://img.youtube.com/vi/dQw4w9WgXcQ/hqdefault.jpg"),
      url |-> Str("https://www.youtube.com/watch?v=dQw4w9WgXcQ")],
     [title |-> Str("Preventing " \o disease \o " in your garden"),
      videoId |-> Str("9bZkp7q19f0"),
      thumbnail |-> Str("https://img.youtube.com/vi/9bZkp7q19f0/hqdefault.jpg"),
      url |-> Str("https://www.youtube.com/watch?v=9bZkp7q19f0")] >>

\* a variant that returns `out` where the mock tutorials belong
external_tutorials_no_mock(up, disease) ==
  IF up.kind = "ok" /\ up.shape = "list"
       /\ \A i \in 1..Len(up.items) : ~TutorialRaises(up.items[i])
    THEN [i \in 1..Len(up.items) |-> TutorialOf(up.items[i])]
    ELSE <<>>

external_tutorials(up, disease) ==
  IF up.kind = "ok" /\ up.shape = "list"
       /\ \A i \in 1..Len(up.items) : ~TutorialRaises(up.items[i])
    THEN [i \in 1..Len(up.items) |-> TutorialOf(up.items[i])]
    ELSE FallbackTutorials(disease)

\* ------------------------------------------------------------------- recent
MockRecent ==
  << [disease |-> Str("Leaf Blight"), confidence |-> Num(870), severity |-> Str("high")],
     [disease |-> Str("Powdery Mildew"), confidence |-> Num(760), severity |-> Str("medium")],
     [disease |-> Str("Rust"), confidence |-> Num(630), severity |-> Str("medium")],
     [disease |-> Str("Healthy"), confidence |-> Num(940), severity |-> Str("low")] >>

\* the projection of one stored document
RecentOf(d) ==
  [disease |-> Get(d.disease),
   confidence |-> Get(d.confidence),
   severity |-> Get(d.severity)]

\* a variant without the try around the read: a failed read yields what was
\* collected, nothing
RecentListNoTry(configured, read) ==
  IF configured
    THEN [i \in 1..Len(read.docs) |-> RecentOf(read.docs[i])]
    ELSE MockRecent

\* configured = (db is not None); read = what find().sort().limit() did
RecentList(configured, read) ==
  IF configured /\ ~read.raised
    THEN [i \in 1..Len(read.docs) |-> RecentOf(read.docs[i])]
    ELSE MockRecent

\* ------------------------------------------------------------------ inputs
Images == {"ZmFrZQ==", "aGVhbHRoeQ=="}
Diseases == {"Rust", "Leaf Blight"}
Limits == {-1, 0, 3, 5, 8}

\* what the classifier may answer to POST /predict
PredictObjects ==
  [disease : {Absent, None, Str("Rust"), JList},
   confidence : {Absent, None, Num(600), Num(601), Num(850), Num(851),
                 Str("0.9"), Str("nan"), Str("abc"), JList},
   severity : {Absent, Str("low"), Str("high")}]

PredictUpstream ==
  Failures \cup {ScalarBody, ListBody(<<>>)} \cup {ObjectBody(o) : o \in PredictObjects}

\* an array element that is no JSON object (a text, a number, null)
NonObject(keys) == [k \in keys \cup {"isobj"} |-> IF k = "isobj" THEN FALSE ELSE Absent]

TreatmentKeys == {"symptoms", "organic", "chemical", "prevention", "preventive"}
ProductKeys == {"name", "price", "url", "image"}
TutorialKeys == {"title", "videoId", "thumbnail", "url"}

TreatmentElems ==
  [isobj : {TRUE},
   symptoms : {Absent, Str("yellow spots"), JList},
   organic : {Absent},
   chemical : {Str("sulfur")},
   prevention : {Absent, None, Str(""), Str("rotate crops")},
   preventive : {Absent, None, Str(""), Str("mulch")}]
  \cup {NonObject(TreatmentKeys)}

ProductElems ==
  [isobj : {TRUE},
   name : {Absent, None, Str("Neem Cake")},
   price : {Absent, None, Num(9990), Str("0.9"), Str("free"), JList},
   url : {Absent},
   image : {Str("https://example.com/a.png")}]
  \cup {NonObject(ProductKeys)}

TutorialElems ==
  [isobj : {TRUE},
   title : {Absent, None, Str("Pruning basics")},
   videoId : {Absent, Str("abc123")},
   thumbnail : {Absent},
   url : {Absent}]
  \cup {NonObject(TutorialKeys)}

\* what a content service may answer to a lookup with arrays of at most k
\* elements drawn from elems
LookupUpstream(elems, k) ==
  Failures \cup {ScalarBody, ObjectBody(<<>>)}
    \cup {ListBody(xs) : xs \in SeqsUpTo(elems, k)}

\* what the classifier answers inside one /api/analyze
BundlePredictUpstream ==
  {up \in PredictUpstream :
     up.kind = "ok" /\ up.shape = "object" =>
       /\ up.obj.disease \in {None, Str("Rust")}
       /\ up.obj.confidence \in {Absent, Num(850), Str("nan"), Str("abc")}
       /\ up.obj.severity = Str("low")}

\* the elements the lookups of one /api/analyze are answered with
BundleTreatmentElems ==
  {e \in TreatmentElems :
     ~e.isobj \/ (e.symptoms = Str("yellow spots") /\ e.prevention = Str("")
                   /\ e.preventive = Str("mulch"))}
BundleProductElems ==
  {e \in ProductElems : ~e.isobj \/ (e.name = Str("Neem Cake") /\ e.price = Str("0.9"))}
BundleTutorialElems ==
  {e \in TutorialElems : ~e.isobj \/ (e.title = Absent /\ e.videoId = Str("abc123"))}

\* stored documents as the cursor of /api/recent yields them
Docs ==
  [disease : {Absent, Str("Rust")},
   confidence : {Num(910)},
   severity : {Absent, Str("high")}]

\* find().sort().limit(n): n > 0 caps the cursor at n documents, 0 is no cap,
\* n < 0 caps it at -n
CursorAllows(limit, n) ==
  IF limit = 0 THEN TRUE ELSE IF limit > 0 THEN n <= limit ELSE n <= -limit

StoreReads ==
  {[raised |-> TRUE, docs |-> <<>>]}
    \cup {[raised |-> FALSE, docs |-> ds] : ds \in SeqsUpTo(Docs, MaxDocs)}

\* ------------------------------------------------------------------- state
VARIABLES
  db,          \* "none": the database import failed or db is None; "configured"
  pc,          \* "idle", the statement of analyze about to run, "done", "raised"
  route,       \* the route being served
  request,     \* its input: image, disease, limit
  upstream,    \* the response to the first outbound call of the request
  result,      \* analyze's local `result`
  treatments,  \* analyze's local `treatments`
  products,    \* analyze's local `products`
  tutorials,   \* analyze's local `tutorials`
  calls,       \* the outbound calls issued for this request, in order
  inserted,    \* the documents create_document stored for this request
  storeRes,    \* what the store did: "none", "skipped", "ok", "raised"
  response     \* the value returned to the caller

vars == <<db, pc, route, request, upstream, result, treatments, products,
          tutorials, calls, inserted, storeRes, response>>

NoRequest == [image |-> "", disease |-> "", limit |-> 0]
NoResult == [disease |-> None, confidence |-> None, organ |-> None, severity |-> None]
NoResponse ==
  [result |-> NoResult, treatments |-> <<>>, products |-> <<>>,
   tutorials |-> <<>>, recent |-> <<>>]

\* the four fields of a PredictResponse
ResultOf(r) ==
  [disease |-> r.disease, confidence |-> r.confidence,
   organ |-> r.organ, severity |-> r.severity]

\* how a call ended, as the log keeps it
OutcomeOf(up) == IF up.kind # "ok" THEN up.kind ELSE up.shape

Call(svc, arg, up) ==
  [svc |-> svc, arg |-> arg, outcome |-> OutcomeOf(up), n |-> Len(up.items)]

\* AnalyzeResponse(result=..., treatments=..., products=..., tutorials=...)
AnalyzeResponse(r, tr, pr, tu) ==
  [result |-> r, treatments |-> tr, products |-> pr, tutorials |-> tu,
   recent |-> <<>>]

\* the argument of the three lookups in analyze: result.disease
LookupKey(r) == r.disease.s

Init ==
  /\ db \in {"none", "configured"}
  /\ pc = "idle"
  /\ route = "none"
  /\ request = NoRequest
  /\ upstream = NoCall
  /\ result = NoResult
  /\ treatments = <<>>
  /\ products = <<>>
  /\ tutorials = <<>>
  /\ calls = <<>>
  /\ inserted = <<>>
  /\ storeRes = "none"
  /\ response = NoResponse

\* ------------------------------------------------------- single-call routes
\* POST /api/predict
RoutePredict ==
  /\ pc = "idle"
  /\ \E image \in Images, up \in PredictUpstream :
       LET r == external_predict(up)
       IN  /\ route' = "/api/predict"
           /\ request' = [NoRequest EXCEPT !.image = image]
           /\ upstream' = up
           /\ calls' = <<Call("predict", image, up)>>
           /\ pc' = IF r.raised THEN "raised" ELSE "done"
           /\ response' = IF r.raised THEN NoResponse
                          ELSE [NoResponse EXCEPT !.result = ResultOf(r)]
  /\ UNCHANGED <<db, result, treatments, products, tutorials, inserted, storeRes>>

\* GET /api/treatments
RouteTreatments ==
  /\ pc = "idle"
  /\ \E disease \in Diseases, up \in LookupUpstream(TreatmentElems, MaxItems) :
       /\ route' = "/api/treatments"
       /\ request' = [NoRequest EXCEPT !.disease = disease]
       /\ upstream' = up
       /\ calls' = <<Call("treatments", disease, up)>>
       /\ pc' = "done"
       /\ response' = [NoResponse EXCEPT !.treatments = external_treatments(up, disease)]
  /\ UNCHANGED <<db, result, treatments, products, tutorials, inserted, storeRes>>

\* GET /api/products
RouteProducts ==
  /\ pc = "idle"
  /\ \E disease \in Diseases, up \in LookupUpstream(ProductElems, MaxItems) :
       /\ route' = "/api/products"
       /\ request' = [NoRequest EXCEPT !.disease = disease]
       /\ upstream' = up
       /\ calls' = <<Call("products", disease, up)>>
       /\ pc' = "done"
       /\ response' = [NoResponse EXCEPT !.products = external_products(up, disease)]
  /\ UNCHANGED <<db, result, treatments, products, tutorials, inserted, storeRes>>

\* GET /api/tutorials
RouteTutorials ==
  /\ pc = "idle"
  /\ \E disease \in Diseases, up \in LookupUpstream(TutorialElems, MaxItems) :
       /\ route' = "/api/tutorials"
       /\ request' = [NoRequest EXCEPT !.disease = disease]
       /\ upstream' = up
       /\ calls' = <<Call("tutorials", disease, up)>>
       /\ pc' = "done"
       /\ response' = [NoResponse EXCEPT !.tutorials = external_tutorials(up, disease)]
  /\ UNCHANGED <<db, result, treatments, products, tutorials, inserted, storeRes>>

\* GET /api/recent
RouteRecent ==
  /\ pc = "idle"
  /\ \E limit \in Limits, read \in StoreReads :
       /\ CursorAllows(limit, Len(read.docs))
       /\ route' = "/api/recent"
       /\ request' = [NoRequest EXCEPT !.limit = limit]
       /\ storeRes' = IF db = "none" THEN "skipped"
                      ELSE IF read.raised THEN "raised" ELSE "ok"
       /\ pc' = "done"
       /\ response' = [NoResponse EXCEPT !.recent = RecentList(db # "none", read)]
  /\ UNCHANGED <<db, upstream, result, treatments, products, tutorials, calls, inserted>>

\* ------------------------------------------------------------- /api/analyze
\* result = external_predict(req.image); a ValidationError leaves the handler
AnalyzePredict ==
  /\ pc = "idle"
  /\ \E image \in Images, up \in BundlePredictUpstream :
       LET r == external_predict(up)
       IN  /\ route' = "/api/analyze"
           /\ request' = [NoRequest EXCEPT !.image = image]
           /\ upstream' = up
           /\ calls' = <<Call("predict", image, up)>>
           /\ pc' = IF r.raised THEN "raised" ELSE "treatments"
           /\ result' = IF r.raised THEN NoResult ELSE ResultOf(r)
  /\ UNCHANGED <<db, treatments, products, tutorials, inserted, storeRes,
                 response>>

\* treatments = external_treatments(result.disease)
AnalyzeTreatments ==
  /\ pc = "treatments"
  /\ \E up \in LookupUpstream(BundleTreatmentElems, MaxBundleItems) :
       /\ treatments' = external_treatments(up, LookupKey(result))
       /\ calls' = Append(calls, Call("treatments", LookupKey(result), up))
  /\ pc' = "products"
  /\ UNCHANGED <<db, route, request, upstream, result, products, tutorials,
                 inserted, storeRes, response>>

\* products = external_products(result.disease)
AnalyzeProducts ==
  /\ pc = "products"
  /\ \E up \in LookupUpstream(BundleProductElems, MaxBundleItems) :
       /\ products' = external_products(up, LookupKey(result))
       /\ calls' = Append(calls, Call("products", LookupKey(result), up))
  /\ pc' = "tutorials"
  /\ UNCHANGED <<db, route, request, upstream, result, treatments, tutorials,
                 inserted, storeRes, response>>

\* tutorials = external_tutorials(result.disease)
AnalyzeTutorials ==
  /\ pc = "tutorials"
  /\ \E up \in LookupUpstream(BundleTutorialElems, MaxBundleItems) :
       /\ tutorials' = external_tutorials(up, LookupKey(result))
       /\ calls' = Append(calls, Call("tutorials", LookupKey(result), up))
  /\ pc' = "store"
  /\ UNCHANGED <<db, route, request, upstream, result, treatments, products,
                 inserted, storeRes, response>>

\* the document analyze stores
AnalysisDoc(r) ==
  [disease |-> r.disease, confidence |-> r.confidence,
   organ |-> r.organ, severity |-> r.severity]

\* where analyze goes after the try around create_document: what the store
\* did never changes it
AfterStore(outcome) == "done"

\* try: if db is not None: create_document(...)  except Exception: pass
\* return AnalyzeResponse(...)
AnalyzeStore ==
  /\ pc = "store"
  /\ \E outcome \in (IF db = "none" THEN {"skipped"} ELSE {"ok", "raised"}) :
       /\ storeRes' = outcome
       /\ inserted' = IF outcome = "ok" THEN Append(inserted, AnalysisDoc(result))
                      ELSE inserted
       /\ pc' = AfterStore(outcome)
       /\ response' = IF AfterStore(outcome) = "done"
                        THEN AnalyzeResponse(result, treatments, products, tutorials)
                        ELSE NoResponse
  /\ UNCHANGED <<db, route, request, upstream, result, treatments, products,
                 tutorials, calls>>

\* the request is over; the next one starts from fresh locals
Finish ==
  /\ pc \in {"done", "raised"}
  /\ pc' = "idle"
  /\ route' = "none"
  /\ request' = NoRequest
  /\ upstream' = NoCall
  /\ result' = NoResult
  /\ treatments' = <<>>
  /\ products' = <<>>
  /\ tutorials' = <<>>
  /\ calls' = <<>>
  /\ inserted' = <<>>
  /\ storeRes' = "none"
  /\ response' = NoResponse
  /\ UNCHANGED db

Next ==
  \/ RoutePredict
  \/ RouteTreatments
  \/ RouteProducts
  \/ RouteTutorials
  \/ RouteRecent
  \/ AnalyzePredict
  \/ AnalyzeTreatments
  \/ AnalyzeProducts
  \/ AnalyzeTutorials
  \/ AnalyzeStore
  \/ Finish

Spec == Init /\ [][Next]_vars

\* ================================================================== claims
Returned(r) == route = r /\ pc = "done"
CallFailed == upstream.kind \in FailKinds
NotASequence == upstream.kind = "ok" /\ upstream.shape # "list"
\* predict took the development fallback
FellBack == ~PredictTry(upstream).ok
EmptySuccess == upstream.kind = "ok" /\ upstream.shape = "list" /\ Len(upstream.items) = 0

\* ---- C1
\* C1 as stated: POST /api/predict never raises, whatever the classifier
\* answers; it always returns a PredictionResult.
C1_PredictNeverRaises ==
  route = "/api/predict" => pc # "raised"

\* ---- C2
\* the threshold rule of the claim, on one returned result
ThresholdRule(r) ==
  /\ r.severity \in {Str("high"), Str("medium"), Str("low")}
  /\ (r.severity = Str("high") <=> Gt(r.confidence, 850))
  /\ (r.severity = Str("medium") <=> (Gt(r.confidence, 600) /\ Le(r.confidence, 850)))
  /\ (r.severity = Str("low") <=> Le(r.confidence, 600))

\* C2 as stated: in every PredictionResult returned by predict or inside an
\* analyze bundle, severity is "high" iff c > 0.85, "medium" iff
\* 0.6 < c <= 0.85 and "low" iff c <= 0.6, c being the returned confidence.
C2_SeverityFollowsThresholds ==
  (Returned("/api/predict") \/ Returned("/api/analyze"))
    => ThresholdRule(response.result)

\* what of C2 the code does keep: whenever the returned confidence is a
\* number the threshold rule holds, the default confidence 0.5 gives "low",
\* the fallback gives 0.87 and "high", and the severity the classifier sent is
\* never the source of the one returned
SeverityFollowsThresholdsOnNumbers ==
  (Returned("/api/predict") \/ Returned("/api/analyze")) =>
    /\ (response.result.confidence.t = "num" => ThresholdRule(response.result))
    /\ response.result.confidence.t \in {"num", "nan"}
    /\ (FellBack => /\ response.result.confidence = Num(870)
                    /\ response.result.severity = Str("high")
                    /\ response.result.disease = Str("Leaf Blight"))
    /\ (~FellBack /\ upstream.obj.confidence = Absent
          => /\ response.result.confidence = Num(500)
             /\ response.result.severity = Str("low"))

\* ---- C3
\* C3 as stated: lookupTreatments never raises and never returns an empty
\* sequence, for every upstream outcome.
C3_TreatmentsNeverEmpty ==
  route = "/api/treatments"
    => pc # "raised" /\ (pc = "done" => Len(response.treatments) >= 1)

\* C3 as amended: lookupTreatments never raises, and the sequence it returns
\* is empty exactly when the call succeeded with an empty sequence as its
\* body; for every other outcome (failure, a body that is no sequence, a
\* sequence with a malformed element, a sequence of well-formed elements) it
\* holds at least one TreatmentAdvice, one per element or the single fallback.
C3_TreatmentsEmptyOnlyOnEmptySuccess ==
  route = "/api/treatments" =>
    /\ pc = "done"
    /\ (Len(response.treatments) = 0 <=> EmptySuccess)
    /\ (CallFailed \/ NotASequence
          \/ (\E i \in 1..Len(upstream.items) : ~upstream.items[i].isobj)
        => /\ Len(response.treatments) = 1
           /\ response.treatments[1].symptoms = Str("Spots and lesions on leaves"))

\* C3's case: a sequence that holds a malformed element came back and the
\* single fallback record was returned for it
C3_Witness ==
  /\ Returned("/api/treatments")
  /\ upstream.kind = "ok" /\ upstream.shape = "list" /\ Len(upstream.items) = 2
  /\ upstream.items[1].isobj /\ ~upstream.items[2].isobj
  /\ Len(response.treatments) = 1

\* ---- C4
\* C4 as stated: the bundle analyze returns has all three sequences non-empty.
C4_BundleSequencesNonEmpty ==
  Returned("/api/analyze") =>
    /\ Len(response.treatments) >= 1
    /\ Len(response.products) >= 1
    /\ Len(response.tutorials) >= 1

\* call i of the request succeeded with an empty sequence as its body
EmptySuccessAt(i) == calls[i].outcome = "list" /\ calls[i].n = 0

\* C4 as amended: in the bundle analyze returns, each of the three sequences
\* is empty exactly when the upstream call of its own lookup succeeded with
\* an empty sequence, and non-empty for every other outcome of that lookup.
C4_BundleEmptyOnlyOnEmptySuccess ==
  Returned("/api/analyze") =>
    /\ Len(calls) = 4
    /\ (Len(response.treatments) = 0 <=> EmptySuccessAt(2))
    /\ (Len(response.products) = 0 <=> EmptySuccessAt(3))
    /\ (Len(response.tutorials) = 0 <=> EmptySuccessAt(4))

\* C4's case: one lookup got an empty sequence, the two others failed, and
\* the bundle came back with one empty and two fallback sequences
C4_Witness ==
  /\ Returned("/api/analyze")
  /\ EmptySuccessAt(2) /\ calls[3].outcome = "timeout" /\ calls[4].outcome = "bad_status"
  /\ Len(response.treatments) = 0
  /\ Len(response.products) = 2 /\ Len(response.tutorials) = 2

\* ---- C5
\* C5 as stated: analyze always returns the bundle, the bundle is the one the
\* four results determine whatever the store did, and the insert comes only
\* after predict and the three lookups.
C5_StoreNeverAffectsResponse ==
  route = "/api/analyze" =>
    /\ pc # "raised"
    /\ (storeRes # "none" => Len(calls) = 4)
    /\ (pc = "done" =>
          response = AnalyzeResponse(result, treatments, products, tutorials))

\* the part of C5 about the store alone: once the four results are there,
\* the next step returns the bundle they determine, whether the store was
\* absent, took the document or raised
StoreStepAlwaysReturns ==
  [][pc = "store" =>
       /\ pc' = "done"
       /\ response' = AnalyzeResponse(result, treatments, products, tutorials)
       /\ Len(inserted') <= 1]_vars

\* ---- C6
\* the tutorials returned are the two mock ones, up to their video ids
MockTutorialsFor(d, ts) ==
  /\ Len(ts) = 2
  /\ ts[1].title = Str("How to treat " \o d)
  /\ ts[2].title = Str("Preventing " \o d \o " in your garden")
  /\ ts[1].title # ts[2].title
  /\ ts[1].thumbnail = Str("https://img.youtube.com/vi/dQw4w9WgXcQ/hqdefault.jpg")
  /\ ts[1].url = Str("https://www.youtube.com/watch?v=dQw4w9WgXcQ")
  /\ ts[2].thumbnail = Str("https://img.youtube.com/vi/9bZkp7q19f0/hqdefault.jpg")
  /\ ts[2].url = Str("https://www.youtube.com/watch?v=9bZkp7q19f0")

\* C6 as stated: on failure or a body that is no sequence, lookupTutorials
\* returns two tutorials with titles made from the disease, differing titles,
\* and the same fixed video id in both.
C6_FallbackTutorialsShareVideoId ==
  (Returned("/api/tutorials") /\ (CallFailed \/ NotASequence)) =>
    /\ MockTutorialsFor(request.disease, response.tutorials)
    /\ response.tutorials[1].videoId = response.tutorials[2].videoId

\* C6 as amended: on failure or a body that is no sequence, lookupTutorials
\* returns exactly two tutorials with titles made from the requested disease,
\* differing titles, literal thumbnail and url, and a fixed video id of its
\* own in each item: dQw4w9WgXcQ in the first, 9bZkp7q19f0 in the second.
C6_FallbackTutorialsTwoVideoIds ==
  (Returned("/api/tutorials") /\ (CallFailed \/ NotASequence)) =>
    /\ MockTutorialsFor(request.disease, response.tutorials)
    /\ response.tutorials[1].videoId = Str("dQw4w9WgXcQ")
    /\ response.tutorials[2].videoId = Str("9bZkp7q19f0")

\* C6's case: the call for "Rust" timed out and two tutorials came back
C6_Witness ==
  /\ Returned("/api/tutorials")
  /\ request.disease = "Rust"
  /\ upstream.kind = "timeout"
  /\ Len(response.tutorials) = 2
  /\ response.tutorials[1].title = Str("How to treat Rust")

\* ---- C7
\* C7: lookupProducts never raises; a successful empty sequence yields the
\* empty result; a failed call or a body that is no sequence yields exactly
\* the two products "Bio Neem Oil" and "Copper Fungicide".
C7_ProductsEmptyVersusFallback ==
  route = "/api/products" =>
    /\ pc = "done"
    /\ (EmptySuccess => response.products = <<>>)
    /\ (CallFailed \/ NotASequence =>
          /\ Len(response.products) = 2
          /\ response.products[1].name = Str("Bio Neem Oil")
          /\ response.products[2].name = Str("Copper Fungicide"))

\* C7's case: the call succeeded with an empty sequence and nothing was
\* substituted
C7_Witness ==
  /\ Returned("/api/products")
  /\ EmptySuccess
  /\ Len(response.products) = 0

\* ---- C8
\* C8: for every limit, listRecent returns exactly the four mock records
\* whenever no store is configured or the read raises, and never raises.
C8_RecentMockRegardlessOfLimit ==
  route = "/api/recent" =>
    /\ pc = "done"
    /\ (storeRes \in {"skipped", "raised"} =>
          /\ Len(response.recent) = 4
          /\ response.recent[1] = [disease |-> Str("Leaf Blight"),
                                   confidence |-> Num(870), severity |-> Str("high")]
          /\ response.recent[2] = [disease |-> Str("Powdery Mildew"),
                                   confidence |-> Num(760), severity |-> Str("medium")]
          /\ response.recent[3] = [disease |-> Str("Rust"),
                                   confidence |-> Num(630), severity |-> Str("medium")]
          /\ response.recent[4] = [disease |-> Str("Healthy"),
                                   confidence |-> Num(940), severity |-> Str("low")])

\* C8's case: a store is configured, the read with limit 3 raised, and four
\* records came back
C8_Witness ==
  /\ Returned("/api/recent")
  /\ db = "configured" /\ storeRes = "raised"
  /\ request.limit = 3
  /\ Len(response.recent) = 4

\* ---- C9
CallOrder == <<"predict", "treatments", "products", "tutorials">>

\* the calls of an analyze request come in the fixed order, none twice, and
\* every lookup is keyed by the disease of `result`
CallsOrdered ==
  route = "/api/analyze" =>
    /\ Len(calls) <= 4
    /\ \A i \in 1..Len(calls) : calls[i].svc = CallOrder[i]
    /\ \A i \in 2..Len(calls) : calls[i].arg = result.disease.s
    /\ (pc = "done" => Len(calls) = 4 /\ response.result = result)
    /\ (Len(calls) >= 2 /\ FellBack
          => \A i \in 2..Len(calls) : calls[i].arg = "Leaf Blight")

\* C9 as stated: within one analyze request predict is issued once and
\* completes with a result before any lookup, each of the three lookups is
\* issued exactly once, keyed by the disease of the result in the response,
\* and the response comes after all three.
C9_EachCallExactlyOnce ==
  /\ CallsOrdered
  /\ (route = "/api/analyze" /\ pc \in {"done", "raised"} =>
        /\ Len(calls) = 4
        /\ result # NoResult)

\* ---- C10
\* C10 as stated: for each element of a successful sequence, `prevention` is
\* the element's `prevention` whenever that is non-null (an empty text
\* included), else the element's `preventive`.
C10_FirstNonNullWins ==
  (Returned("/api/treatments") /\ upstream.kind = "ok" /\ upstream.shape = "list"
     /\ \A i \in 1..Len(upstream.items) : ~TreatmentRaises(upstream.items[i])) =>
    \A i \in 1..Len(upstream.items) :
      response.treatments[i].prevention =
        IF upstream.items[i].prevention.t \in {"absent", "none"}
          THEN Get(upstream.items[i].preventive)
          ELSE upstream.items[i].prevention

\* C10 as amended: for each element of a successful sequence of well-formed
\* elements, `prevention` is the element's `prevention` whenever that is a
\* non-empty text; when it is absent, null or the empty text, it is the
\* element's `preventive` (null when that is absent): the first truthy wins.
C10_FirstNonEmptyWins ==
  (Returned("/api/treatments") /\ upstream.kind = "ok" /\ upstream.shape = "list"
     /\ \A i \in 1..Len(upstream.items) : ~TreatmentRaises(upstream.items[i])) =>
    /\ Len(response.treatments) = Len(upstream.items)
    /\ \A i \in 1..Len(upstream.items) :
         response.treatments[i].prevention =
           IF upstream.items[i].prevention.t = "str"
                /\ upstream.items[i].prevention.s # ""
             THEN upstream.items[i].prevention
             ELSE Get(upstream.items[i].preventive)

\* C10's case: an element with an empty `prevention` and a `preventive` came
\* back and was mapped
C10_Witness ==
  /\ Returned("/api/treatments")
  /\ upstream.kind = "ok" /\ upstream.shape = "list" /\ Len(upstream.items) = 1
  /\ upstream.items[1].isobj
  /\ upstream.items[1].prevention = Str("")
  /\ upstream.items[1].preventive = Str("mulch")
  /\ Len(response.treatments) = 1
  /\ response.treatments[1].prevention = Str("mulch")

====
